---- MODULE Spec2Model ----
(***************************************************************************)
(* Model of recintos-zoo.js / animais-zoo.js: the zoo's enclosures         *)
(* (Recinto), the animal batches (LoteAnimal and its subclasses), the      *)
(* batch factory (FabricaLoteAnimais.geraLote) and the analysis            *)
(* (RecintosZoo.analisaRecintos).                                          *)
(*                                                                         *)
(* JavaScript values are tagged records: a string is [tipo |-> "string",   *)
(* val |-> <<characters>>], a number is [tipo |-> "number", num, den]      *)
(* (the rational num/den; den = 0 stands for NaN), undefined is            *)
(* [tipo |-> "undefined"].  Species names are sequences of characters so   *)
(* that toUpperCase is computed, character by character.                   *)
(***************************************************************************)
EXTENDS Integers, Sequences, FiniteSets, TLC

VARIABLES listaRecintos, pedido, resultado

vars == <<listaRecintos, pedido, resultado>>

(***************************************************************************)
(* Bounds                                                                  *)
(***************************************************************************)
\* largest integer count of a batch that is requested or admitted
MaxQtde == 3
\* largest number of resident batches of the enclosure of SpecRecinto
MaxLotes == 4
\* largest total capacity of the enclosure of SpecRecinto
MaxTamanho == 10

(***************************************************************************)
(* JavaScript values                                                       *)
(***************************************************************************)
Str(s) == [tipo |-> "string", val |-> s]

Num(n, d) == [tipo |-> "number", num |-> n, den |-> d]

Int2Num(n) == Num(n, 1)

NaN == Num(0, 0)

Undefined == [tipo |-> "undefined"]

typeof(v) == v.tipo

isNaN(x) == x.den = 0

\* x <= 0 for a number x (false for NaN)
LeqZero(x) == ~isNaN(x) /\ x.num <= 0

\* a >= b for numbers (false when either is NaN)
Geq(a, b) == ~isNaN(a) /\ ~isNaN(b) /\ a.num * b.den >= b.num * a.den

\* a == b for numbers (false when either is NaN)
NumEq(a, b) == ~isNaN(a) /\ ~isNaN(b) /\ a.num * b.den = b.num * a.den

\* a * n for a number a and an integer n
Times(a, n) == Num(a.num * n, a.den)

\* a - b for numbers
Minus(a, b) ==
    IF isNaN(a) \/ isNaN(b) THEN NaN
    ELSE IF a.den = b.den THEN Num(a.num - b.num, a.den)
    ELSE Num(a.num * b.den - b.num * a.den, a.den * b.den)

isInteger(x) == ~isNaN(x) /\ x.num % x.den = 0

(***************************************************************************)
(* Strings                                                                 *)
(***************************************************************************)
Minusculas == <<"a","b","c","d","e","f","g","h","i","j","k","l","m",
                "n","o","p","q","r","s","t","u","v","w","x","y","z">>

Maiusculas == <<"A","B","C","D","E","F","G","H","I","J","K","L","M",
                "N","O","P","Q","R","S","T","U","V","W","X","Y","Z">>

\* the upper-case letter of each lower-case letter
MapaMaiusculas ==
    [c \in {Minusculas[i] : i \in 1..Len(Minusculas)} |->
        Maiusculas[CHOOSE i \in 1..Len(Minusculas) : Minusculas[i] = c]]

toUpperCaseChar(c) == IF c \in DOMAIN MapaMaiusculas THEN MapaMaiusculas[c] ELSE c

toUpperCase(s) == [i \in 1..Len(s) |-> toUpperCaseChar(s[i])]

LEAO == <<"L","E","A","O">>
LEOPARDO == <<"L","E","O","P","A","R","D","O">>
CROCODILO == <<"C","R","O","C","O","D","I","L","O">>
MACACO == <<"M","A","C","A","C","O">>
GAZELA == <<"G","A","Z","E","L","A">>
HIPOPOTAMO == <<"H","I","P","O","P","O","T","A","M","O">>

Catalogo == {LEAO, LEOPARDO, CROCODILO, MACACO, GAZELA, HIPOPOTAMO}

includes(arr, x) == \E i \in 1..Len(arr) : arr[i] = x

(***************************************************************************)
(* animais-zoo.js: LoteAnimal and its subclasses                           *)
(***************************************************************************)
LoteAnimal(classe, especie, tamanho, biomas, qtdeLote) ==
    [tipo |-> "object", classe |-> classe, especie |-> especie,
     tamanho |-> tamanho, biomas |-> biomas, qtdeLote |-> qtdeLote]

Leao(qtdeLote) == LoteAnimal("Leao", LEAO, 3, <<"savana">>, qtdeLote)

Leopardo(qtdeLote) == LoteAnimal("Leopardo", LEOPARDO, 2, <<"savana">>, qtdeLote)

Crocodilo(qtdeLote) == LoteAnimal("Crocodilo", CROCODILO, 3, <<"rio">>, qtdeLote)

Macaco(qtdeLote) == LoteAnimal("Macaco", MACACO, 1, <<"savana", "floresta">>, qtdeLote)

Gazela(qtdeLote) == LoteAnimal("Gazela", GAZELA, 2, <<"savana">>, qtdeLote)

Hipopotamo(qtdeLote) == LoteAnimal("Hipopotamo", HIPOPOTAMO, 4, <<"savana", "rio">>, qtdeLote)

isCarnivoro(lote) == lote.classe \in {"Leao", "Leopardo", "Crocodilo"}

tamanhoLote(lote) == Times(lote.qtdeLote, lote.tamanho)

verificaBiomaAdequado(lote, biomasRecinto) ==
    \E i \in 1..Len(lote.biomas) : includes(biomasRecinto, lote.biomas[i])

\* variant: compares the free space with the count, not with count * unit size
verificaEspacoSuficente_semTamanho(lote, espacoDisponivel) ==
    Geq(Int2Num(espacoDisponivel), lote.qtdeLote)

verificaEspacoSuficente(lote, espacoDisponivel) ==
    Geq(Int2Num(espacoDisponivel), Times(lote.qtdeLote, lote.tamanho))

toleraOutrasEspecies(biomasRecinto) ==
    includes(biomasRecinto, "savana") /\ includes(biomasRecinto, "rio")

(***************************************************************************)
(* recintos-zoo.js: Recinto                                                *)
(***************************************************************************)
temOutrasEspecies(recinto, especie) ==
    \/ Cardinality(recinto.listaEspecies) > 1
    \/ (Cardinality(recinto.listaEspecies) = 1 /\ especie \notin recinto.listaEspecies)

\* variant: no unit reserved for mixed species
getEspacoDisponivel_semPenalidade(recinto, especie) ==
    recinto.tamanhoTotal - recinto.tamanhoOcupado

getEspacoDisponivel(recinto, especie) ==
    LET espacoRestante == recinto.tamanhoTotal - recinto.tamanhoOcupado
    IN  IF temOutrasEspecies(recinto, especie) THEN espacoRestante - 1
        ELSE espacoRestante

\* LoteAnimal.estaConfortavel, inherited by every class but Macaco and Hipopotamo
estaConfortavelPadrao(lote, recinto) ==
    LET espacoDisponivel == getEspacoDisponivel(recinto, lote.especie)
    IN  /\ verificaBiomaAdequado(lote, recinto.biomas)
        /\ verificaEspacoSuficente(lote, espacoDisponivel)

\* variant: the lone-monkey rule also taken for a pair of monkeys
estaConfortavelMacaco_ate2(lote, recinto) ==
    LET espacoDisponivel == getEspacoDisponivel(recinto, lote.especie)
    IN  IF /\ verificaBiomaAdequado(lote, recinto.biomas)
           /\ verificaEspacoSuficente(lote, espacoDisponivel)
        THEN ~(/\ Geq(Int2Num(2), lote.qtdeLote)
               /\ espacoDisponivel = recinto.tamanhoTotal)
        ELSE FALSE

\* variant: no lone-monkey rule
estaConfortavelMacaco_semRegra(lote, recinto) == estaConfortavelPadrao(lote, recinto)

\* Macaco.estaConfortavel
estaConfortavelMacaco(lote, recinto) ==
    LET espacoDisponivel == getEspacoDisponivel(recinto, lote.especie)
    IN  IF /\ verificaBiomaAdequado(lote, recinto.biomas)
           /\ verificaEspacoSuficente(lote, espacoDisponivel)
        THEN ~(/\ NumEq(lote.qtdeLote, Int2Num(1))
               /\ espacoDisponivel = recinto.tamanhoTotal)
        ELSE FALSE

\* Hipopotamo.estaConfortavel
estaConfortavelHipopotamo(lote, recinto) ==
    LET espacoDisponivel == getEspacoDisponivel(recinto, lote.especie)
    IN  IF /\ verificaBiomaAdequado(lote, recinto.biomas)
           /\ verificaEspacoSuficente(lote, espacoDisponivel)
        THEN IF temOutrasEspecies(recinto, lote.especie)
             THEN toleraOutrasEspecies(recinto.biomas)
             ELSE TRUE
        ELSE FALSE

\* dynamic dispatch of lote.estaConfortavel(recinto)
estaConfortavel(lote, recinto) ==
    CASE lote.classe = "Macaco" -> estaConfortavelMacaco(lote, recinto)
      [] lote.classe = "Hipopotamo" -> estaConfortavelHipopotamo(lote, recinto)
      [] OTHER -> estaConfortavelPadrao(lote, recinto)

\* variant: resident hippopotamuses tolerate any newcomer
hipopotamoResidenteTolera_sempre(recinto, lote) == TRUE

\* lines 92-97: resident hippopotamuses tolerate another species only with savana and rio
hipopotamoResidenteTolera(recinto, lote) ==
    IF HIPOPOTAMO \in recinto.listaEspecies /\ lote.especie # HIPOPOTAMO
    THEN includes(recinto.biomas, "rio") /\ includes(recinto.biomas, "savana")
    ELSE TRUE

\* variant: only the first half of the rule, a carnivore may join other species
violaExclusividadeCarnivoros_semSimetrico(recinto, lote) ==
    recinto.flagContemCarnivoros /\ lote.especie \notin recinto.listaEspecies

\* lines 99-103: carnivores live only with their own species
violaExclusividadeCarnivoros(recinto, lote) ==
    \/ (recinto.flagContemCarnivoros /\ lote.especie \notin recinto.listaEspecies)
    \/ (isCarnivoro(lote) /\ ~recinto.flagContemCarnivoros
            /\ Cardinality(recinto.listaEspecies) > 0)

consegueAcomodarLote(recinto, lote) ==
    IF ~estaConfortavel(lote, recinto) THEN FALSE
    ELSE IF ~hipopotamoResidenteTolera(recinto, lote) THEN FALSE
    ELSE IF violaExclusividadeCarnivoros(recinto, lote) THEN FALSE
    ELSE TRUE

\* the enclosure after recinto.adicionaLoteAnimais(lote); tamanhoOcupado is kept
\* as an integer: the batches admitted (the seed's, and Lotes) have integer counts
adicionaLoteAnimais(recinto, lote) ==
    IF consegueAcomodarLote(recinto, lote)
    THEN [recinto EXCEPT
            !.flagContemCarnivoros = IF isCarnivoro(lote) THEN TRUE ELSE @,
            !.listaEspecies = @ \cup {lote.especie},
            !.animaisExistentes = Append(@, lote),
            !.tamanhoOcupado = @ + tamanhoLote(lote).num \div tamanhoLote(lote).den]
    ELSE recinto

RECURSIVE adicionaTodos(_, _)
\* the forEach of the constructor
adicionaTodos(recinto, lotes) ==
    IF lotes = <<>> THEN recinto
    ELSE adicionaTodos(adicionaLoteAnimais(recinto, Head(lotes)), Tail(lotes))

\* new Recinto(id, biomas, tamanhoTotal, animaisPreExistentes)
Recinto(id, biomas, tamanhoTotal, animaisPreExistentes) ==
    adicionaTodos([id |-> id, biomas |-> biomas, tamanhoTotal |-> tamanhoTotal,
                   tamanhoOcupado |-> 0, animaisExistentes |-> <<>>,
                   listaEspecies |-> {}, flagContemCarnivoros |-> FALSE],
                  animaisPreExistentes)

(***************************************************************************)
(* animais-zoo.js: FabricaLoteAnimais                                      *)
(***************************************************************************)
AnimalInvalido == [tipo |-> "string", val |-> "Animal inválido"]

QuantidadeInvalida == [tipo |-> "string", val |-> "Quantidade inválida"]

geraLote(especie, qtdeLote) ==
    IF typeof(especie) # "string" THEN AnimalInvalido
    ELSE IF typeof(qtdeLote) # "number" \/ LeqZero(qtdeLote) THEN QuantidadeInvalida
    ELSE LET nome == toUpperCase(especie.val)
         IN  CASE nome = LEAO -> Leao(qtdeLote)
               [] nome = LEOPARDO -> Leopardo(qtdeLote)
               [] nome = CROCODILO -> Crocodilo(qtdeLote)
               [] nome = MACACO -> Macaco(qtdeLote)
               [] nome = GAZELA -> Gazela(qtdeLote)
               [] nome = HIPOPOTAMO -> Hipopotamo(qtdeLote)
               [] OTHER -> AnimalInvalido

(***************************************************************************)
(* recintos-zoo.js: RecintosZoo                                            *)
(***************************************************************************)
inicializaRecintos ==
    << Recinto(1, <<"savana">>, 10, <<geraLote(Str(MACACO), Int2Num(3))>>),
       Recinto(2, <<"floresta">>, 5, <<>>),
       Recinto(3, <<"savana", "rio">>, 7, <<geraLote(Str(GAZELA), Int2Num(1))>>),
       Recinto(4, <<"rio">>, 8, <<>>),
       Recinto(5, <<"savana">>, 9, <<geraLote(Str(LEAO), Int2Num(1))>>) >>

geraSaidaErro(causa) == [erro |-> causa]

\* the message of one viable enclosure: the three values the code interpolates
\* into "Recinto <id> (espaco livre: <espacoLivre> total: <tamanhoTotal>)"
geraSaidaEsperada(listaRecintosViaveis) ==
    [recintosViaveis |->
        [k \in 1..Len(listaRecintosViaveis) |->
            [recinto |-> listaRecintosViaveis[k].recinto.id,
             espacoLivre |-> listaRecintosViaveis[k].espacoLivre,
             total |-> listaRecintosViaveis[k].recinto.tamanhoTotal]]]

RECURSIVE recintosViaveisDe(_, _, _, _)
\* the forEach of analisaRecintos over zoo[i..]: the viable enclosures, in order
recintosViaveisDe(zoo, i, animal, novoLote) ==
    IF i > Len(zoo) THEN <<>>
    ELSE LET recinto == zoo[i]
             resto == recintosViaveisDe(zoo, i + 1, animal, novoLote)
         IN  IF consegueAcomodarLote(recinto, novoLote)
             THEN LET espacoDisponivel == getEspacoDisponivel(recinto, animal.val)
                  IN  <<[recinto |-> recinto,
                         espacoLivre |-> Minus(Int2Num(espacoDisponivel),
                                               tamanhoLote(novoLote))]>> \o resto
             ELSE resto

\* variant: the forEach admits the batch into every enclosure that accepts it
recintosAposAnalise_admite(zoo, novoLote) ==
    [i \in 1..Len(zoo) |-> adicionaLoteAnimais(zoo[i], novoLote)]

\* the enclosures after the forEach of analisaRecintos: it only queries them
recintosAposAnalise(zoo, novoLote) == zoo

\* zoo.analisaRecintos(animal, quantidade): the value returned and the enclosures left
analisaRecintos(zoo, animal, quantidade) ==
    LET novoLote == geraLote(animal, quantidade)
    IN  IF typeof(novoLote) = "string"
        THEN [saida |-> geraSaidaErro(novoLote.val), listaRecintos |-> zoo]
        ELSE LET recintosViaveis == recintosViaveisDe(zoo, 1, animal, novoLote)
             IN  [saida |-> IF Len(recintosViaveis) > 0
                            THEN geraSaidaEsperada(recintosViaveis)
                            ELSE geraSaidaErro("Não há recinto viável"),
                  listaRecintos |-> recintosAposAnalise(zoo, novoLote)]

(***************************************************************************)
(* Inputs                                                                  *)
(***************************************************************************)
\* species arguments: the catalog, other spellings of it, unknown names, a non-string
Animais ==
    {Str(e) : e \in Catalogo} \cup
    { Str(<<"m","a","c","a","c","o">>), Str(<<"L","e","a","o">>),
      Str(<<"h","i","p","o","p","o","t","a","m","o">>),
      Str(<<"C","A","C","H","O","R","R","O">>), Str(<<>>), Undefined }

\* count arguments: integers from -1, halves, NaN, a non-number
Quantidades ==
    {Int2Num(n) : n \in -1..MaxQtde} \cup
    { Num(1, 2), Num(3, 2), NaN, Undefined }

\* the batches handed to adicionaLoteAnimais: geraLote's, of positive integer count
Lotes == {geraLote(Str(e), Int2Num(n)) : e \in Catalogo, n \in 1..MaxQtde}

BiomasRecinto ==
    { <<"savana">>, <<"floresta">>, <<"rio">>, <<"savana", "rio">>,
      <<"savana", "floresta">>, <<"floresta", "rio">>,
      <<"savana", "floresta", "rio">> }

RECURSIVE numLotes(_, _)
numLotes(zoo, i) ==
    IF i > Len(zoo) THEN 0 ELSE Len(zoo[i].animaisExistentes) + numLotes(zoo, i + 1)

Nenhum == [nenhum |-> TRUE]

(***************************************************************************)
(* Actions                                                                 *)
(***************************************************************************)
\* a call zoo.analisaRecintos(animal, quantidade)
Analisa(animal, quantidade) ==
    LET r == analisaRecintos(listaRecintos, animal, quantidade)
    IN  /\ pedido' = [animal |-> animal, quantidade |-> quantidade]
        /\ resultado' = r.saida
        /\ listaRecintos' = r.listaRecintos

\* a call listaRecintos[i].adicionaLoteAnimais(lote)
Adiciona(i, lote) ==
    /\ numLotes(listaRecintos, 1) < MaxLotes
    /\ listaRecintos' = [listaRecintos EXCEPT ![i] = adicionaLoteAnimais(@, lote)]
    /\ UNCHANGED <<pedido, resultado>>

AnalisaRecintos == \E animal \in Animais, quantidade \in Quantidades : Analisa(animal, quantidade)

AdicionaLoteAnimais == \E i \in 1..Len(listaRecintos), lote \in Lotes : Adiciona(i, lote)

\* the zoo: new RecintosZoo(), then calls of analisaRecintos, the one method
\* of RecintosZoo that callers use
Init ==
    /\ listaRecintos = inicializaRecintos
    /\ pedido = Nenhum
    /\ resultado = Nenhum

Next == AnalisaRecintos

Spec == Init /\ [][Next]_vars

\* one enclosure on its own: new Recinto(...), then admissions
InitRecinto ==
    /\ \E biomas \in BiomasRecinto, tamanhoTotal \in 1..MaxTamanho,
          pre \in {<<>>} \cup {<<l>> : l \in Lotes} :
            listaRecintos = <<Recinto(1, biomas, tamanhoTotal, pre)>>
    /\ pedido = Nenhum
    /\ resultado = Nenhum

NextRecinto == AdicionaLoteAnimais

SpecRecinto == InitRecinto /\ [][NextRecinto]_vars

TypeOK ==
    /\ Len(listaRecintos) >= 1
    /\ \A i \in 1..Len(listaRecintos) : listaRecintos[i].tamanhoOcupado \in Nat

(***************************************************************************)
(* Properties of analisaRecintos (specification Spec)                      *)
(***************************************************************************)
pedidoFeito == pedido # Nenhum

especieDesconhecida(animal) ==
    typeof(animal) = "string" /\ toUpperCase(animal.val) \notin Catalogo

especieValida(animal) ==
    typeof(animal) = "string" /\ toUpperCase(animal.val) \in Catalogo

temRecintosViaveis(saida) == "recintosViaveis" \in DOMAIN saida

\* C1: a species string that matches no catalog identifier, case-insensitively,
\* gets the error "Animal inválido" and never a viable list, whatever the count.
C1_EspecieDesconhecida ==
    (pedidoFeito /\ especieDesconhecida(pedido.animal))
        => resultado = geraSaidaErro("Animal inválido")

\* C2: a valid species with a count that is a finite number but not a positive
\* integer (<= 0, or a fraction) gets the error "Quantidade inválida".
C2_QuantidadeInvalida ==
    (/\ pedidoFeito
     /\ especieValida(pedido.animal)
     /\ typeof(pedido.quantidade) = "number"
     /\ ~isNaN(pedido.quantidade)
     /\ (LeqZero(pedido.quantidade) \/ ~isInteger(pedido.quantidade)))
        => resultado = geraSaidaErro("Quantidade inválida")

\* C3: a call of analisaRecintos, valid or not, leaves every enclosure as it was,
\* so the zoo stays in its seed state through any sequence of calls, and the
\* same call on the enclosures it leaves returns the same result.
C3_AnaliseNaoMuta ==
    /\ [](listaRecintos = inicializaRecintos)
    /\ [][AnalisaRecintos =>
            /\ \A i \in 1..Len(listaRecintos) :
                  /\ listaRecintos'[i].tamanhoOcupado = listaRecintos[i].tamanhoOcupado
                  /\ listaRecintos'[i].listaEspecies = listaRecintos[i].listaEspecies
                  /\ listaRecintos'[i].animaisExistentes = listaRecintos[i].animaisExistentes
                  /\ listaRecintos'[i].flagContemCarnivoros
                        = listaRecintos[i].flagContemCarnivoros
            /\ resultado' = analisaRecintos(listaRecintos', pedido'.animal,
                                            pedido'.quantidade).saida]_vars

\* C3 witness: a viable list was returned on the seed zoo
C3_Witness ==
    /\ pedidoFeito
    /\ temRecintosViaveis(resultado)
    /\ listaRecintos = inicializaRecintos

\* C4: analisaRecintos(s, n) returns what analisaRecintos(uppercase(s), n) returns,
\* for every species string s and count n.
C4_CaixaIndiferente ==
    [][\A animal \in Animais, quantidade \in Quantidades :
          (typeof(animal) = "string" /\ Analisa(animal, quantidade))
             => resultado' = analisaRecintos(listaRecintos,
                                             Str(toUpperCase(animal.val)),
                                             quantidade).saida]_vars

pedidoMacaco3 ==
    /\ pedidoFeito
    /\ pedido.animal = Str(MACACO)
    /\ pedido.quantidade = Int2Num(3)
    /\ listaRecintos = inicializaRecintos

viavel(saida, id, espacoLivre, total) ==
    /\ temRecintosViaveis(saida)
    /\ includes(saida.recintosViaveis,
                [recinto |-> id, espacoLivre |-> Int2Num(espacoLivre), total |-> total])

rejeitado(saida, id) ==
    temRecintosViaveis(saida) =>
        \A k \in 1..Len(saida.recintosViaveis) : saida.recintosViaveis[k].recinto # id

\* C6 as stated: on the seed zoo, (MACACO, 3) lists enclosure 1 with free space 6
\* of 10 and enclosure 3 with free space 2 of 7, and rejects enclosures 2, 4 and 5.
C6_Macaco3_Original ==
    pedidoMacaco3 =>
        /\ viavel(resultado, 1, 6, 10)
        /\ viavel(resultado, 3, 2, 7)
        /\ rejeitado(resultado, 2)
        /\ rejeitado(resultado, 4)
        /\ rejeitado(resultado, 5)

\* C6 amended: on the seed zoo, (MACACO, 3) lists exactly enclosure 1 with free
\* space 4 of 10, enclosure 2 with free space 2 of 5 and enclosure 3 with free
\* space 1 of 7; enclosure 4 fails on habitat, enclosure 5 on the carnivore rule.
C6_Macaco3 ==
    pedidoMacaco3 =>
        /\ resultado = [recintosViaveis |->
              << [recinto |-> 1, espacoLivre |-> Int2Num(4), total |-> 10],
                 [recinto |-> 2, espacoLivre |-> Int2Num(2), total |-> 5],
                 [recinto |-> 3, espacoLivre |-> Int2Num(1), total |-> 7] >>]
        /\ ~verificaBiomaAdequado(Macaco(Int2Num(3)), listaRecintos[4].biomas)
        /\ estaConfortavel(Macaco(Int2Num(3)), listaRecintos[5])
        /\ violaExclusividadeCarnivoros(listaRecintos[5], Macaco(Int2Num(3)))

\* C6 witness: (MACACO, 3) was answered on the seed zoo
C6_Witness == pedidoMacaco3 /\ temRecintosViaveis(resultado)

(***************************************************************************)
(* Properties of Recinto (specification SpecRecinto)                       *)
(***************************************************************************)
\* every batch geraLote can return for the inputs of the model
LotesCandidatos ==
    {l \in {geraLote(a, q) : a \in Animais, q \in Quantidades} : typeof(l) = "object"}

Recintos == {listaRecintos[i] : i \in 1..Len(listaRecintos)}

vazio(recinto) == Len(recinto.animaisExistentes) = 0

especiesResidentes(recinto) ==
    {recinto.animaisExistentes[k].especie : k \in 1..Len(recinto.animaisExistentes)}

macacoSozinho(lote) == lote.classe = "Macaco" /\ NumEq(lote.qtdeLote, Int2Num(1))

\* C5 as stated: an enclosure that cannot take a batch still cannot take it
\* after any further admission into that enclosure.
C5_Monotonia_Original ==
    [][\A i \in 1..Len(listaRecintos) : \A lote \in LotesCandidatos :
          ~consegueAcomodarLote(listaRecintos[i], lote)
             => ~consegueAcomodarLote(listaRecintos'[i], lote)]_vars

\* C5 amended: an enclosure that cannot take a batch still cannot take it after
\* any further admission, except for a single monkey facing an empty enclosure.
C5_Monotonia ==
    [][\A i \in 1..Len(listaRecintos) : \A lote \in LotesCandidatos :
          (/\ ~consegueAcomodarLote(listaRecintos[i], lote)
           /\ ~(macacoSozinho(lote) /\ vazio(listaRecintos[i])))
             => ~consegueAcomodarLote(listaRecintos'[i], lote)]_vars

\* C5 witness: after two admissions, a batch whose habitat fits is refused
C5_Witness ==
    \E r \in Recintos : \E lote \in Lotes :
        /\ Len(r.animaisExistentes) >= 2
        /\ verificaBiomaAdequado(lote, r.biomas)
        /\ hipopotamoResidenteTolera(r, lote)
        /\ ~violaExclusividadeCarnivoros(r, lote)
        /\ ~consegueAcomodarLote(r, lote)

RECURSIVE somaLotes(_)
somaLotes(lotes) ==
    IF lotes = <<>> THEN 0
    ELSE tamanhoLote(Head(lotes)).num + somaLotes(Tail(lotes))

\* C7: the occupied space never exceeds the total capacity and is the sum of
\* tamanhoLote over the resident batches.
C7_Capacidade ==
    \A r \in Recintos :
        /\ r.tamanhoOcupado <= r.tamanhoTotal
        /\ \A k \in 1..Len(r.animaisExistentes) : r.animaisExistentes[k].qtdeLote.den = 1
        /\ r.tamanhoOcupado = somaLotes(r.animaisExistentes)

\* C7 witness: an enclosure filled to its capacity by two batches or more
C7_Witness ==
    \E r \in Recintos :
        Len(r.animaisExistentes) >= 2 /\ r.tamanhoOcupado = r.tamanhoTotal

\* C8: the lone-monkey rule denies a single monkey exactly in the enclosures
\* with no resident batch: there it is always refused, elsewhere the rule
\* never changes the default comfort.
C8_MacacoSozinho ==
    \A r \in Recintos :
        LET m == Macaco(Int2Num(1))
            negadoPelaRegra == estaConfortavelPadrao(m, r) /\ ~estaConfortavel(m, r)
        IN  /\ vazio(r) => ~estaConfortavel(m, r)
            /\ (vazio(r) /\ estaConfortavelPadrao(m, r)) => negadoPelaRegra
            /\ negadoPelaRegra => vazio(r)
            /\ ~vazio(r) => (estaConfortavel(m, r) <=> estaConfortavelPadrao(m, r))

\* C8 witness: a single monkey is comfortable with residents of another species
C8_Witness ==
    \E r \in Recintos :
        /\ ~vazio(r)
        /\ MACACO \notin r.listaEspecies
        /\ estaConfortavel(Macaco(Int2Num(1)), r)

\* C9: a resident carnivore batch means its species is the only resident species;
\* with the carnivore flag set every batch of a non-resident species is refused,
\* and without it every carnivore batch is refused once a species is resident.
C9_Carnivoros ==
    \A r \in Recintos :
        /\ \A k \in 1..Len(r.animaisExistentes) :
              isCarnivoro(r.animaisExistentes[k])
                 => /\ r.listaEspecies = {r.animaisExistentes[k].especie}
                    /\ especiesResidentes(r) = {r.animaisExistentes[k].especie}
        /\ \A lote \in Lotes :
              /\ (r.flagContemCarnivoros /\ lote.especie \notin r.listaEspecies)
                    => ~consegueAcomodarLote(r, lote)
              /\ (isCarnivoro(lote) /\ ~r.flagContemCarnivoros
                    /\ Cardinality(r.listaEspecies) >= 1)
                    => ~consegueAcomodarLote(r, lote)

\* C9 witness: two batches of one carnivore species share an enclosure
C9_Witness ==
    \E r \in Recintos :
        /\ Len(r.animaisExistentes) >= 2
        /\ r.flagContemCarnivoros
        /\ isCarnivoro(r.animaisExistentes[1])

\* C10: hippopotamuses reside with another species only where the biomes hold
\* both savana and rio; a savana-only enclosure that hosts another species
\* refuses one hippopotamus.
C10_Hipopotamo ==
    \A r \in Recintos :
        /\ (HIPOPOTAMO \in especiesResidentes(r) /\ Cardinality(especiesResidentes(r)) > 1)
              => (includes(r.biomas, "savana") /\ includes(r.biomas, "rio"))
        /\ (r.biomas = <<"savana">> /\ especiesResidentes(r) # {}
               /\ HIPOPOTAMO \notin especiesResidentes(r))
              => ~consegueAcomodarLote(r, Hipopotamo(Int2Num(1)))

\* C10 witness: hippopotamuses and another species reside together
C10_Witness ==
    \E r \in Recintos :
        HIPOPOTAMO \in especiesResidentes(r) /\ Cardinality(especiesResidentes(r)) > 1

\* the enclosure of the zoo with the given id
recintoDeId(id) == CHOOSE r \in Recintos : r.id = id

\* C11: for every request the catalog accepts and every enclosure listed as
\* viable, the reported espacoLivre is the free space evaluated for the resolved
\* batch's species minus the batch's tamanhoLote, is never negative and never
\* exceeds the enclosure's total capacity.
C11_EspacoLivre ==
    (pedidoFeito /\ temRecintosViaveis(resultado)) =>
        LET novoLote == geraLote(pedido.animal, pedido.quantidade)
        IN  \A k \in 1..Len(resultado.recintosViaveis) :
              LET opcao == resultado.recintosViaveis[k]
                  recinto == recintoDeId(opcao.recinto)
              IN  /\ opcao.espacoLivre =
                        Minus(Int2Num(getEspacoDisponivel(recinto, novoLote.especie)),
                              tamanhoLote(novoLote))
                  /\ Geq(opcao.espacoLivre, Int2Num(0))
                  /\ Geq(Int2Num(recinto.tamanhoTotal), opcao.espacoLivre)

====
